---- MODULE Spec2Model ----
(***************************************************************************)
(* Traffic Flow Simulator (Modelling_Proj.py, class TrafficSimulator).      *)
(*                                                                         *)
(* The program is a Tk application.  Its state is the Tk variables bound   *)
(* to the widgets, the pack state of the Start Simulation button, the      *)
(* modal error box, the text shown in the result label, and the Python     *)
(* call stack: start_simulation is a button command, and it and            *)
(* simulate_traffic call root.update(), which dispatches pending widget    *)
(* events from inside the handler, so handlers nest.                       *)
(*                                                                         *)
(* Python floats are modelled as exact fractions [n, d] in lowest terms.   *)
(* Entry texts are sequences of one-character strings.                     *)
(* Closing the window (on_closing) ends the application and is outside     *)
(* the model.                                                              *)
(***************************************************************************)
EXTENDS Integers, Sequences, FiniteSets, TLC

(***************************************************************************)
(* Bounds of the model.                                                    *)
(***************************************************************************)
\* the longest horizon typed into the time entry in Spec
MaxTime == 2
\* how deep start_simulation may nest through root.update()
MaxDepth == 2
\* the minutes the single-step specification SpecStep draws from
MaxMinute == 106

(***************************************************************************)
(* Program constants of simulate_traffic.                                  *)
(***************************************************************************)
PeakStart == 15
PeakEnd == 45
PeakPeriod == 60

(***************************************************************************)
(* Exact arithmetic standing for Python's float arithmetic.                *)
(***************************************************************************)
RECURSIVE GCD(_, _)
GCD(a, b) == IF b = 0 THEN a ELSE GCD(b, a % b)

Abs(x) == IF x < 0 THEN -x ELSE x

\* the fraction n/d (d > 0) in lowest terms
Frac(n, d) ==
  LET g == GCD(Abs(n), d)
  IN  [n |-> n \div g, d |-> d \div g]

FInt(k) == [n |-> k, d |-> 1]

FAdd(x, y) == Frac(x.n * y.d + y.n * x.d, x.d * y.d)

FMul(x, y) == Frac(x.n * y.n, x.d * y.d)

FIsZero(x) == x.n = 0

\* x / y for y # 0
FDiv(x, y) ==
  IF y.n > 0 THEN Frac(x.n * y.d, x.d * y.n)
             ELSE Frac(-(x.n * y.d), x.d * (-y.n))

FLess(x, y) == x.n * y.d < y.n * x.d

\* max(0, x)
FMax0(x) == IF x.n < 0 THEN FInt(0) ELSE x

\* int(x): truncation toward zero
FTrunc(x) == IF x.n >= 0 THEN x.n \div x.d ELSE -((-x.n) \div x.d)

RECURSIVE FSum(_)
\* sum(seq), added left to right from 0
FSum(seq) ==
  IF seq = <<>> THEN FInt(0)
  ELSE FAdd(FSum(SubSeq(seq, 1, Len(seq) - 1)), seq[Len(seq)])

\* format(x, ".1f") as a number of tenths: nearest tenth, ties to even
Round1(x) ==
  LET t  == 10 * x.n
      q  == t \div x.d
      r2 == 2 * (t % x.d)
  IN  IF r2 < x.d THEN q
      ELSE IF r2 > x.d THEN q + 1
      ELSE IF q % 2 = 0 THEN q ELSE q + 1

(***************************************************************************)
(* The catalogue self.traffic_options.                                     *)
(***************************************************************************)
NoSelection == "Select an option"

traffic_options ==
  [o \in {"Traffic Lights", "Redesigned Lanes", "Roundabout",
          "U-Turn Slot System", "Overpass Bridge", "Road Widening"} |->
     CASE o = "Traffic Lights" ->
            [efficiency |-> Frac(8, 10), cost |-> 2500000,
             wait_time |-> 45, maintenance_cost |-> 100000]
       [] o = "Redesigned Lanes" ->
            [efficiency |-> Frac(12, 10), cost |-> 7500000,
             wait_time |-> 30, maintenance_cost |-> 200000]
       [] o = "Roundabout" ->
            [efficiency |-> Frac(10, 10), cost |-> 10000000,
             wait_time |-> 20, maintenance_cost |-> 300000]
       [] o = "U-Turn Slot System" ->
            [efficiency |-> Frac(9, 10), cost |-> 5000000,
             wait_time |-> 25, maintenance_cost |-> 150000]
       [] o = "Overpass Bridge" ->
            [efficiency |-> Frac(16, 10), cost |-> 25000000,
             wait_time |-> 10, maintenance_cost |-> 800000]
       [] OTHER ->
            [efficiency |-> Frac(13, 10), cost |-> 20000000,
             wait_time |-> 15, maintenance_cost |-> 400000]]

Options == DOMAIN traffic_options

(***************************************************************************)
(* Entry texts and their conversions.                                      *)
(***************************************************************************)
Digits == {"0", "1", "2", "3", "4", "5", "6", "7", "8", "9"}

DigitVal(c) ==
  CASE c = "0" -> 0 [] c = "1" -> 1 [] c = "2" -> 2 [] c = "3" -> 3
    [] c = "4" -> 4 [] c = "5" -> 5 [] c = "6" -> 6 [] c = "7" -> 7
    [] c = "8" -> 8 [] OTHER -> 9

DigitChar(k) ==
  CASE k = 0 -> "0" [] k = 1 -> "1" [] k = 2 -> "2" [] k = 3 -> "3"
    [] k = 4 -> "4" [] k = 5 -> "5" [] k = 6 -> "6" [] k = 7 -> "7"
    [] k = 8 -> "8" [] OTHER -> "9"

\* str.isdigit(): non-empty and every character a digit
IsDigit(P) == P # <<>> /\ \A i \in 1..Len(P) : P[i] \in Digits

RECURSIVE IntOf(_)
\* int(text) of a text of digits
IntOf(P) ==
  IF P = <<>> THEN 0
  ELSE 10 * IntOf(SubSeq(P, 1, Len(P) - 1)) + DigitVal(P[Len(P)])

\* int(text) raises ValueError on a text that is no number
RaisesValueError(P) == ~IsDigit(P)

RECURSIVE TextOf(_)
\* the decimal text a user types for the number k
TextOf(k) ==
  IF k < 10 THEN <<DigitChar(k)>>
  ELSE Append(TextOf(k \div 10), DigitChar(k % 10))

validate_number_input(P) == P = <<>> \/ IsDigit(P)

(***************************************************************************)
(* One minute of simulate_traffic: the body of its for loop.               *)
(***************************************************************************)
PeakFactor == Frac(7, 10)

\* a slip in the window test: the minute taken without % 60
InPeakWindow_once(minute) == PeakStart <= minute /\ minute <= PeakEnd

\* the test 15 <= minute % 60 <= 45
InPeakWindow(minute) ==
  PeakStart <= minute % PeakPeriod /\ minute % PeakPeriod <= PeakEnd

\* current_efficiency after the peak-hour test
CurrentEfficiency(base_efficiency, minute, peak) ==
  IF peak /\ InPeakWindow(minute)
  THEN FMul(base_efficiency, PeakFactor)
  ELSE base_efficiency

\* passed_vehicles = vehicles_per_minute * current_efficiency, then *= weather_factor
PassedVehicles(info, vehicles_per_minute, minute, peak, weather_factor) ==
  FMul(FMul(FInt(vehicles_per_minute),
            CurrentEfficiency(info.efficiency, minute, peak)),
       weather_factor)

\* a slip: the ratio upside down
CurrentWait_inverted(base_wait_time, vehicles_per_minute, passed_vehicles) ==
  IF vehicles_per_minute = 0 THEN FInt(0)
  ELSE FMul(FInt(base_wait_time), FDiv(passed_vehicles, FInt(vehicles_per_minute)))

\* current_wait = base_wait_time * (vehicles_per_minute / passed_vehicles)
CurrentWait(base_wait_time, vehicles_per_minute, passed_vehicles) ==
  FMul(FInt(base_wait_time), FDiv(FInt(vehicles_per_minute), passed_vehicles))

\* the outcome of the loop body for one minute: the float division raises
\* ZeroDivisionError when passed_vehicles is 0, and nothing catches it in the loop
simulate_step(info, vehicles_per_minute, minute, peak, weather_factor) ==
  LET passed == PassedVehicles(info, vehicles_per_minute, minute, peak, weather_factor)
  IN  IF FIsZero(passed)
      THEN [raised |-> "ZeroDivisionError", passed_vehicles |-> passed,
            current_wait |-> FInt(0)]
      ELSE [raised |-> "none", passed_vehicles |-> passed,
            current_wait |-> CurrentWait(info.wait_time, vehicles_per_minute, passed)]

\* a slip: each minute truncated before it is added
Accumulate_truncating(total_vehicles, passed_vehicles) ==
  FAdd(total_vehicles, FInt(FTrunc(FMax0(passed_vehicles))))

\* total_vehicles += max(0, passed_vehicles)
Accumulate(total_vehicles, passed_vehicles) ==
  FAdd(total_vehicles, FMax0(passed_vehicles))

\* a slip in the loop bound: one pass too many
HasNext_inclusive(minute, simulation_time) == minute <= simulation_time

\* range(simulation_time) still has an item after `minute` items were taken
HasNext(minute, simulation_time) == minute < simulation_time

\* the next item of range(simulation_time)
NextMinute(minute) == minute + 1

\* a slip: the factor of the first minute used again in the later ones
UsedWeather_stale(drawn, earlier) == IF earlier = <<>> THEN drawn ELSE earlier[1]

\* the weather factor the body multiplies by is the one just drawn
UsedWeather(drawn, earlier) == drawn

\* avg_wait = sum(wait_times) / len(wait_times)
AvgWait(wait_times) == FDiv(FSum(wait_times), FInt(Len(wait_times)))

\* return int(total_vehicles), wait_times
ReturnedTotal(total_vehicles) == FTrunc(total_vehicles)

(***************************************************************************)
(* State.                                                                  *)
(***************************************************************************)
VARIABLES
  solution_var,    \* the combobox's StringVar
  vehicles_var,    \* the vehicles entry's StringVar
  time_var,        \* the time entry's StringVar
  peak_hour_var,   \* the checkbox's BooleanVar
  btn_packed,      \* whether simulate_btn is packed (shown)
  result_var,      \* what the result label shows
  dialog,          \* the modal messagebox.showerror on screen, or "none"
  stack,           \* the nested start_simulation calls, outermost first
  last_run,        \* history: what the run that returned last was given and returned
  prev_run,        \* history: the run that returned before last_run (kept on request)
  probe            \* SpecStep only: one evaluation of the loop body

vars == <<solution_var, vehicles_var, time_var, peak_hour_var, btn_packed,
          result_var, dialog, stack, last_run, prev_run, probe>>

SelectMsg == "Please select a traffic solution!"
PositiveMsg == "Please enter positive numbers!"
ValidMsg == "Please enter valid numbers for vehicles and time!"
ErrorMsg == "An error occurred: float division by zero"

NoRun == [done |-> FALSE]
NoProbe == [kind |-> "none"]

Init ==
  /\ solution_var = NoSelection
  /\ vehicles_var = <<>>
  /\ time_var = <<>>
  /\ peak_hour_var = FALSE
  /\ btn_packed = FALSE
  /\ result_var = [text |-> ""]
  /\ dialog = "none"
  /\ stack = <<>>
  /\ last_run = NoRun
  /\ prev_run = NoRun
  /\ probe = NoProbe

Top == stack[Len(stack)]

\* the Tk event loop is dispatching widget events: in mainloop with no handler
\* running, or inside a root.update() of the innermost handler
Dispatching ==
  /\ dialog = "none"
  /\ IF stack = <<>> THEN TRUE ELSE Top.pc \in {"update465", "update320"}

\* validate_all_fields: the condition under which simulate_btn is packed
FieldsValid(vehicles, sim_time, solution) ==
  /\ vehicles # <<>>
  /\ sim_time # <<>>
  /\ solution # NoSelection
  /\ IsDigit(vehicles)
  /\ IsDigit(sim_time)
  /\ IntOf(vehicles) > 0
  /\ IntOf(sim_time) > 0

(***************************************************************************)
(* What the user does in the specifications below.                         *)
(***************************************************************************)
\* the catalogue entry picked in the combobox in Spec
Selectable == {"Traffic Lights"}

\* what is typed into the vehicles entry; the last one is a key the
\* validation command refuses
VehicleTexts == {<<"0">>, <<"6">>, <<"x">>}

\* what is typed into the time entry
TimeTexts == {<<"x">>} \cup {TextOf(k) : k \in 0..MaxTime}

\* the values random.uniform(0.8, 1.2) returns
WeatherFactors == {Frac(8, 10), Frac(12, 10)}

(***************************************************************************)
(* Widget events.  Each write of a traced StringVar runs                   *)
(* validate_all_fields, which packs or forgets simulate_btn.               *)
(***************************************************************************)
\* <<ComboboxSelected>>: the combobox writes solution_var
SelectSolution(sols) ==
  /\ Dispatching
  /\ \E s \in sols :
       /\ s # solution_var
       /\ solution_var' = s
       /\ btn_packed' = FieldsValid(vehicles_var, time_var, s)
  /\ UNCHANGED <<vehicles_var, time_var, peak_hour_var, result_var, dialog,
                 stack, last_run, prev_run, probe>>

\* an edit of the vehicles entry to the text P, let through by validate_number_input
EditVehicles(texts) ==
  /\ Dispatching
  /\ \E P \in texts :
       /\ P # vehicles_var
       /\ IF validate_number_input(P)
          THEN /\ vehicles_var' = P
               /\ btn_packed' = FieldsValid(P, time_var, solution_var)
          ELSE UNCHANGED <<vehicles_var, btn_packed>>
  /\ UNCHANGED <<solution_var, time_var, peak_hour_var, result_var, dialog,
                 stack, last_run, prev_run, probe>>

\* an edit of the time entry to the text P
EditTime(texts) ==
  /\ Dispatching
  /\ \E P \in texts :
       /\ P # time_var
       /\ IF validate_number_input(P)
          THEN /\ time_var' = P
               /\ btn_packed' = FieldsValid(vehicles_var, P, solution_var)
          ELSE UNCHANGED <<time_var, btn_packed>>
  /\ UNCHANGED <<solution_var, vehicles_var, peak_hour_var, result_var, dialog,
                 stack, last_run, prev_run, probe>>

\* a click on the Peak Hour Traffic checkbox
TogglePeak ==
  /\ Dispatching
  /\ peak_hour_var' = ~peak_hour_var
  /\ UNCHANGED <<solution_var, vehicles_var, time_var, btn_packed, result_var,
                 dialog, stack, last_run, prev_run, probe>>

\* the user closes the error box; showerror returns and so does the handler
DismissDialog ==
  /\ dialog # "none"
  /\ dialog' = "none"
  /\ UNCHANGED <<solution_var, vehicles_var, time_var, peak_hour_var, btn_packed,
                 result_var, stack, last_run, prev_run, probe>>

(***************************************************************************)
(* start_simulation, up to its root.update().                              *)
(***************************************************************************)

\* a slip in the check: zero let through
InvalidParameters_strict(vehicles, sim_time) == vehicles < 0 \/ sim_time < 0

\* vehicles <= 0 or sim_time <= 0
InvalidParameters(vehicles, sim_time) == vehicles <= 0 \/ sim_time <= 0

NewFrame(vehicles, sim_time) ==
  [pc |-> "update465", vehicles |-> vehicles, sim_time |-> sim_time,
   option |-> NoSelection, minute |-> 0, total_vehicles |-> FInt(0),
   wait_times |-> <<>>, minutes |-> <<>>, weather |-> <<>>, passed |-> <<>>,
   peak_at_start |-> FALSE]

\* the handler, called while events are dispatched; `depth` caps the nesting
\* and `keep` says whether the display cleared here is kept in prev_run
start_simulation(depth, keep) ==
  /\ Dispatching
  /\ IF solution_var = NoSelection
     THEN /\ dialog' = SelectMsg
          /\ UNCHANGED <<result_var, stack, last_run, prev_run>>
     ELSE IF RaisesValueError(vehicles_var) \/ RaisesValueError(time_var)
     THEN /\ dialog' = ValidMsg
          /\ UNCHANGED <<result_var, stack, last_run, prev_run>>
     ELSE IF InvalidParameters(IntOf(vehicles_var), IntOf(time_var))
     THEN /\ dialog' = PositiveMsg
          /\ UNCHANGED <<result_var, stack, last_run, prev_run>>
     ELSE /\ Len(stack) < depth
          /\ result_var' = [text |-> "Simulation in progress..."]
          /\ stack' = Append(stack, NewFrame(IntOf(vehicles_var), IntOf(time_var)))
          /\ last_run' = NoRun
          /\ prev_run' = IF keep /\ last_run.done THEN last_run ELSE prev_run
          /\ UNCHANGED dialog
  /\ UNCHANGED <<solution_var, vehicles_var, time_var, peak_hour_var, btn_packed,
                 probe>>

\* a click on the Start Simulation button, possible while it is packed
ClickStart(depth, keep) ==
  /\ btn_packed
  /\ start_simulation(depth, keep)

\* start_simulation called while the button is not packed: no widget does
\* this; it exercises the handler's own checks
CallStart(depth, keep) ==
  /\ ~btn_packed
  /\ start_simulation(depth, keep)

(***************************************************************************)
(* simulate_traffic and the rest of start_simulation.                      *)
(***************************************************************************)
Pop == SubSeq(stack, 1, Len(stack) - 1)

SetTop(f) == [stack EXCEPT ![Len(stack)] = f]

\* root.update() of line 465 returns; simulate_traffic is entered with the
\* solution selected now (history: the checkbox as it is now, kept on request)
EnterSimulate(keep) ==
  /\ dialog = "none"
  /\ stack # <<>>
  /\ Top.pc = "update465"
  /\ stack' = SetTop([Top EXCEPT !.pc = "loop",
                                 !.option = solution_var,
                                 !.peak_at_start = keep /\ peak_hour_var])
  /\ UNCHANGED <<solution_var, vehicles_var, time_var, peak_hour_var, btn_packed,
                 result_var, dialog, last_run, prev_run, probe>>

\* one pass of the loop body with the weather factor w, up to root.update()
IterateWith(w) ==
  LET f    == Top
      step == simulate_step(traffic_options[f.option], f.vehicles, f.minute,
                            peak_hour_var, UsedWeather(w, f.weather))
  IN  IF step.raised # "none"
      THEN \* the exception leaves simulate_traffic; start_simulation's
           \* except Exception shows it
           /\ stack' = Pop
           /\ dialog' = ErrorMsg
      ELSE /\ stack' = SetTop([f EXCEPT
                 !.pc = "update320",
                 !.wait_times = Append(f.wait_times, step.current_wait),
                 !.total_vehicles = Accumulate(f.total_vehicles, step.passed_vehicles),
                 !.minutes = Append(f.minutes, f.minute),
                 !.weather = Append(f.weather, w),
                 !.passed = Append(f.passed, step.passed_vehicles)])
           /\ UNCHANGED dialog

Iterate(weathers) ==
  /\ dialog = "none"
  /\ stack # <<>>
  /\ Top.pc = "loop"
  /\ HasNext(Top.minute, Top.sim_time)
  /\ \E w \in weathers : IterateWith(w)
  /\ UNCHANGED <<solution_var, vehicles_var, time_var, peak_hour_var, btn_packed,
                 result_var, last_run, prev_run, probe>>

\* root.update() of line 320 returns, sleep, the for statement takes the next minute
Resume ==
  /\ dialog = "none"
  /\ stack # <<>>
  /\ Top.pc = "update320"
  /\ stack' = SetTop([Top EXCEPT !.pc = "loop", !.minute = NextMinute(Top.minute)])
  /\ UNCHANGED <<solution_var, vehicles_var, time_var, peak_hour_var, btn_packed,
                 result_var, dialog, last_run, prev_run, probe>>

\* what start_simulation puts in result_var, with the solution selected now
ResultText(total, avg_wait) ==
  LET solution_info == traffic_options[solution_var]
      yearly_cost   == solution_info.maintenance_cost
  IN  [text |-> "SIMULATION RESULTS",
       solution |-> solution_var,
       total |-> total,
       avg_wait_tenths |-> Round1(avg_wait),
       cost |-> solution_info.cost,
       yearly |-> yearly_cost,
       five_year |-> solution_info.cost + yearly_cost * 5]

\* the loop is exhausted: simulate_traffic returns and start_simulation displays
Return ==
  /\ dialog = "none"
  /\ stack # <<>>
  /\ Top.pc = "loop"
  /\ ~HasNext(Top.minute, Top.sim_time)
  /\ stack' = Pop
  /\ IF Top.wait_times = <<>>
     THEN \* sum(wait_times) / len(wait_times) raises ZeroDivisionError
          /\ dialog' = "An error occurred: division by zero"
          /\ UNCHANGED <<result_var, last_run>>
     ELSE LET f        == Top
              total    == ReturnedTotal(f.total_vehicles)
              avg_wait == AvgWait(f.wait_times)
          IN  /\ result_var' = ResultText(total, avg_wait)
              /\ last_run' = [done |-> TRUE, option |-> f.option,
                              vehicles |-> f.vehicles, sim_time |-> f.sim_time,
                              peak_at_start |-> f.peak_at_start,
                              minutes |-> f.minutes,
                              weather |-> f.weather, passed |-> f.passed,
                              wait_times |-> f.wait_times,
                              total |-> total, avg_wait |-> avg_wait]
              /\ UNCHANGED dialog
  /\ UNCHANGED <<solution_var, vehicles_var, time_var, peak_hour_var, btn_packed,
                 prev_run, probe>>

(***************************************************************************)
(* Spec: the application with short horizons and nested runs.              *)
(***************************************************************************)
Next ==
  \/ SelectSolution(Selectable)
  \/ EditVehicles(VehicleTexts)
  \/ EditTime(TimeTexts)
  \/ TogglePeak
  \/ ClickStart(MaxDepth, FALSE)
  \/ CallStart(MaxDepth, FALSE)
  \/ DismissDialog
  \/ EnterSimulate(FALSE)
  \/ Iterate(WeatherFactors)
  \/ Resume
  \/ Return

Spec == Init /\ [][Next]_vars

(***************************************************************************)
(* SpecHour: one run at a time over a horizon that reaches the peak-hour   *)
(* window, two catalogue entries, the history variables kept.              *)
(***************************************************************************)
\* the horizon typed into the time entry in SpecHour
HourTime == 16

HourSelectable == {"Traffic Lights", "Roundabout"}

HourVehicleTexts == {<<"6">>, <<"x">>}

HourTimeTexts == {TextOf(HourTime), <<"x">>}

HourWeatherFactors == {FInt(1)}

NextHour ==
  \/ SelectSolution(HourSelectable)
  \/ EditVehicles(HourVehicleTexts)
  \/ EditTime(HourTimeTexts)
  \/ TogglePeak
  \/ ClickStart(1, TRUE)
  \/ CallStart(1, TRUE)
  \/ DismissDialog
  \/ EnterSimulate(TRUE)
  \/ Iterate(HourWeatherFactors)
  \/ Resume
  \/ Return

SpecHour == Init /\ [][NextHour]_vars

(***************************************************************************)
(* SpecStep: the loop body of simulate_traffic on its own, its inputs      *)
(* drawn from bounded sets.                                                *)
(***************************************************************************)
StepVehicles == {0, 1, 6, 60}

StepWeatherFactors == {Frac(8, 10), FInt(1), Frac(12, 10)}

InitStep ==
  /\ solution_var = NoSelection
  /\ vehicles_var = <<>>
  /\ time_var = <<>>
  /\ peak_hour_var = FALSE
  /\ btn_packed = FALSE
  /\ result_var = [text |-> ""]
  /\ dialog = "none"
  /\ stack = <<>>
  /\ last_run = NoRun
  /\ prev_run = NoRun
  /\ \E o \in Options, v \in StepVehicles, m \in 0..MaxMinute, pk \in BOOLEAN,
        w \in StepWeatherFactors :
       probe = [kind |-> "input", option |-> o, vehicles |-> v, minute |-> m,
                peak |-> pk, weather |-> w]

\* the loop body is run on the inputs drawn
RunStep ==
  /\ probe.kind = "input"
  /\ probe' = [kind |-> "output", option |-> probe.option,
               vehicles |-> probe.vehicles, minute |-> probe.minute,
               peak |-> probe.peak, weather |-> probe.weather,
               step |-> simulate_step(traffic_options[probe.option], probe.vehicles,
                                      probe.minute, probe.peak, probe.weather)]
  /\ UNCHANGED <<solution_var, vehicles_var, time_var, peak_hour_var, btn_packed,
                 result_var, dialog, stack, last_run, prev_run>>

SpecStep == InitStep /\ [][RunStep]_vars

(***************************************************************************)
(* SpecFair: nested runs under fairness.  An error box is closed           *)
(* eventually (weak fairness of DismissDialog), and the handler at each    *)
(* nesting depth is strongly fair: a root.update() returns once the        *)
(* pending events are handled, also when every such update handles further *)
(* clicks, and a loop pass or a return is never held up.  The strong       *)
(* fairness SF_vars of the handler's steps at depth d is written out as    *)
(* <>[]~enabled \/ []<>step, with the enabling condition HandlerReady.     *)
(***************************************************************************)
FairVehicleTexts == {<<"6">>, <<"x">>}

FairWeatherFactors == {FInt(1)}

NextFair ==
  \/ SelectSolution(Selectable)
  \/ EditVehicles(FairVehicleTexts)
  \/ EditTime(TimeTexts)
  \/ TogglePeak
  \/ ClickStart(MaxDepth, FALSE)
  \/ CallStart(MaxDepth, FALSE)
  \/ DismissDialog
  \/ EnterSimulate(FALSE)
  \/ Iterate(FairWeatherFactors)
  \/ Resume
  \/ Return

\* the handler at depth d is the innermost one and no error box holds it up:
\* one of EnterSimulate, Iterate, Resume, Return is then enabled
HandlerReady(d) == Len(stack) = d /\ dialog = "none"

\* a step of the handler at depth d: the stack changes and nothing is pushed
HandlerStep(d) ==
  /\ HandlerReady(d)
  /\ stack' # stack
  /\ Len(stack') <= Len(stack)

SpecFair ==
  /\ Init
  /\ [][NextFair]_vars
  /\ WF_vars(DismissDialog)
  /\ \A d \in 1..MaxDepth :
       <>[](~HandlerReady(d)) \/ []<><<HandlerStep(d)>>_vars

(***************************************************************************)
(* Claims.                                                                 *)
(***************************************************************************)
\* the sequence 0, 1, ..., n-1
FirstMinutes(n) == [k \in 1..n |-> k - 1]

\* C1: every run started with a horizon of N > 0 minutes terminates and
\* returns a series of exactly N steps, made in the minute order 0, 1, ...,
\* N-1 with no minute skipped or repeated.  While a run is under way its
\* steps so far are the minutes 0..k-1 in order, one wait time per minute and
\* never more than N; each handler on the stack leaves it (termination); and
\* when it leaves, simulate_traffic has returned the N wait times of the
\* minutes 0..N-1.
C1_RunReturnsEveryMinuteInOrder ==
  /\ [](\A i \in 1..Len(stack) :
          /\ stack[i].sim_time > 0
          /\ stack[i].minutes = FirstMinutes(Len(stack[i].minutes))
          /\ Len(stack[i].wait_times) = Len(stack[i].minutes)
          /\ Len(stack[i].minutes) <= stack[i].sim_time)
  /\ \A d \in 1..MaxDepth : (Len(stack) >= d) ~> (Len(stack) < d)
  /\ [][Len(stack') < Len(stack) =>
          /\ last_run'.done
          /\ last_run'.sim_time = Top.sim_time
          /\ last_run'.minutes = FirstMinutes(Top.sim_time)
          /\ Len(last_run'.wait_times) = Top.sim_time]_vars

\* a run of two minutes has returned both, while another handler is still
\* on the stack
C1_Witness ==
  /\ last_run.done
  /\ last_run.sim_time = 2
  /\ last_run.minutes = <<0, 1>>
  /\ stack # <<>>

\* C2: a call of start_simulation with a horizon <= 0 or an arrival rate <= 0
\* in the entries fails before any stepping: it ends in an error box (the
\* positive-numbers one when a solution is selected and both entries are
\* numbers), pushes no run, draws nothing, and leaves the results alone.
C2_InvalidParametersFailFast ==
  [][(/\ Dispatching
      /\ dialog' # dialog \/ Len(stack') > Len(stack)
      /\ \/ IsDigit(vehicles_var) /\ IntOf(vehicles_var) <= 0
         \/ IsDigit(time_var) /\ IntOf(time_var) <= 0)
     => /\ dialog' \in {SelectMsg, ValidMsg, PositiveMsg}
        /\ (solution_var # NoSelection /\ IsDigit(vehicles_var) /\ IsDigit(time_var))
             => dialog' = PositiveMsg
        /\ stack' = stack
        /\ result_var' = result_var
        /\ last_run' = last_run]_vars

\* the positive-numbers box is up after a call with the horizon 0, during a run
C2_Witness ==
  /\ dialog = PositiveMsg
  /\ IntOf(time_var) = 0
  /\ stack # <<>>

\* C3: with the weather factor 1.0, the throughput of minute m is
\* arrival rate * efficiency * 0.7 when the peak-hour flag is on and
\* 15 <= m mod 60 <= 45, and arrival rate * efficiency otherwise.
C3_PeakHourThroughput ==
  (probe.kind = "output" /\ probe.weather = FInt(1)) =>
    LET plain == FMul(FInt(probe.vehicles), traffic_options[probe.option].efficiency)
    IN  probe.step.passed_vehicles =
          IF probe.peak /\ 15 <= probe.minute % 60 /\ probe.minute % 60 <= 45
          THEN FMul(plain, Frac(7, 10))
          ELSE plain

\* the loop body was run for minute 75, in the window of the second hour
C3_Witness ==
  /\ probe.kind = "output"
  /\ probe.weather = FInt(1)
  /\ probe.peak
  /\ probe.minute = 75
  /\ probe.vehicles = 60

\* what a run gives when nothing happens between its minutes: the checkbox
\* is read as it was when simulate_traffic was entered
BatchStep(run, k) ==
  simulate_step(traffic_options[run.option], run.vehicles, k - 1,
                run.peak_at_start, run.weather[k])

BatchWaits(run) == [k \in 1..Len(run.weather) |-> BatchStep(run, k).current_wait]

BatchTotal(run) ==
  FTrunc(FSum([k \in 1..Len(run.weather) |-> BatchStep(run, k).passed_vehicles]))

\* C4: two runs started with the same solution, arrival rate, horizon and
\* peak-hour value and given the same weather factors return the same wait
\* times and the same total.
C4_SameInputSameResult ==
  (/\ prev_run.done
   /\ last_run.done
   /\ prev_run.option = last_run.option
   /\ prev_run.vehicles = last_run.vehicles
   /\ prev_run.sim_time = last_run.sim_time
   /\ prev_run.peak_at_start = last_run.peak_at_start
   /\ prev_run.weather = last_run.weather)
  => /\ prev_run.wait_times = last_run.wait_times
     /\ prev_run.total = last_run.total

\* C5: a run whose steps are displayed one by one, with the widget events
\* handled between minutes, returns what the same run returns with nothing
\* handled between minutes.
C5_ResultIndependentOfDisplay ==
  last_run.done =>
    /\ last_run.wait_times = BatchWaits(last_run)
    /\ last_run.total = BatchTotal(last_run)

\* C6: no run starts stepping between the first and the last step of a run
\* that has not finished.
C6_OneRunAtATime ==
  \A i \in 1..Len(stack) : \A j \in 1..Len(stack) :
    ~(/\ i < j
      /\ Len(stack[i].minutes) >= 1
      /\ Len(stack[i].minutes) < stack[i].sim_time
      /\ Len(stack[j].minutes) >= 1)

\* minute k-1 of the run was computed with the k-th factor it drew, the
\* checkbox being on or off at that minute
StepUses(run, k) ==
  \E pk \in BOOLEAN :
    LET step == simulate_step(traffic_options[run.option], run.vehicles, k - 1,
                              pk, run.weather[k])
    IN  /\ run.passed[k] = step.passed_vehicles
        /\ run.wait_times[k] = step.current_wait

\* C7: a run of N minutes that has returned drew exactly N weather factors,
\* and the k-th one is the factor in the throughput and the wait time of
\* minute k-1; a run under way has drawn one factor per minute done.
C7_OneDrawPerMinute ==
  /\ last_run.done =>
       /\ Len(last_run.weather) = last_run.sim_time
       /\ \A k \in 1..last_run.sim_time : StepUses(last_run, k)
  /\ \A i \in 1..Len(stack) :
       /\ Len(stack[i].weather) = Len(stack[i].minutes)
       /\ \A k \in 1..Len(stack[i].weather) : StepUses(stack[i], k)

\* a run of two minutes has returned, its two factors different
C7_Witness ==
  /\ last_run.done
  /\ last_run.sim_time = 2
  /\ last_run.weather[1] # last_run.weather[2]

RECURSIVE SumFrom(_, _)
\* seq[i] + seq[i+1] + ... + seq[Len(seq)]
SumFrom(seq, i) ==
  IF i > Len(seq) THEN FInt(0) ELSE FAdd(seq[i], SumFrom(seq, i + 1))

\* C8: for a series that is not empty, the total reported is the sum of the
\* throughputs of the minutes truncated toward zero, the truncation applied
\* once to the sum, and the average wait is the sum of the wait times
\* divided by their number.  The result label shows that total and that
\* average to one decimal.
C8_Aggregation ==
  last_run.done =>
    LET sum_passed == SumFrom(last_run.passed, 1)
        sum_waits  == SumFrom(last_run.wait_times, 1)
    IN  /\ ~FLess(sum_passed, FInt(last_run.total))
        /\ FLess(sum_passed, FInt(last_run.total + 1))
        /\ FMul(last_run.avg_wait, FInt(Len(last_run.wait_times))) = sum_waits
        /\ result_var.text = "SIMULATION RESULTS"
        /\ result_var.total = last_run.total
        /\ result_var.avg_wait_tenths = Round1(last_run.avg_wait)

\* a run of two minutes has returned whose total is more than the sum of
\* its minutes truncated one by one
C8_Witness ==
  /\ last_run.done
  /\ Len(last_run.passed) = 2
  /\ FTrunc(last_run.passed[1]) + FTrunc(last_run.passed[2]) < last_run.total

WaitWithEfficiency(e) ==
  simulate_step([efficiency |-> e,
                 wait_time |-> traffic_options[probe.option].wait_time],
                probe.vehicles, probe.minute, probe.peak, probe.weather).current_wait

\* the efficiencies compared: those of the catalogue, a smaller and a larger one
Efficiencies ==
  {traffic_options[o].efficiency : o \in Options} \cup {Frac(1, 10), Frac(5, 2)}

\* C10: for one minute, with the arrival rate (> 0), the base wait time, the
\* peak-hour state and the weather factor held fixed, a larger efficiency
\* gives a strictly smaller wait time.
C10_WaitDecreasesWithEfficiency ==
  (probe.kind = "output" /\ probe.vehicles > 0) =>
    \A e1 \in Efficiencies : \A e2 \in Efficiencies :
      FLess(e1, e2) =>
        /\ FLess(WaitWithEfficiency(e2), WaitWithEfficiency(e1))
        /\ e1 = traffic_options[probe.option].efficiency
             => WaitWithEfficiency(e1) = probe.step.current_wait

\* the loop body was run for a peak-hour minute of a solution that is not
\* the most efficient one
C10_Witness ==
  /\ probe.kind = "output"
  /\ probe.vehicles = 6
  /\ probe.option = "Traffic Lights"
  /\ probe.peak
  /\ probe.minute = 20
  /\ probe.weather = Frac(12, 10)

(***************************************************************************)
(* SpecAggregate: simulate_traffic called on its own with a horizon that   *)
(* may be 0, followed by the averaging and the display of                  *)
(* start_simulation (lines 470-498).  Through the window the horizon 0     *)
(* never gets this far: start_simulation returns at line 457.              *)
(***************************************************************************)
\* the longest horizon of a call in SpecAggregate
MaxSeries == 2

AggregateVehicles == {6}

\* the message start_simulation's except Exception shows for 0 / 0
EmptyMsg == "An error occurred: division by zero"

InitAggregate ==
  /\ solution_var = NoSelection
  /\ vehicles_var = <<>>
  /\ time_var = <<>>
  /\ peak_hour_var = FALSE
  /\ btn_packed = FALSE
  /\ result_var = [text |-> ""]
  /\ dialog = "none"
  /\ stack = <<>>
  /\ last_run = NoRun
  /\ prev_run = NoRun
  /\ \E o \in Options, v \in AggregateVehicles, n \in 0..MaxSeries, pk \in BOOLEAN :
       \E ws \in [1..n -> StepWeatherFactors] :
         probe = [kind |-> "call", option |-> o, vehicles |-> v, sim_time |-> n,
                  peak_at_start |-> pk, weather |-> ws]

\* total, wait_times = self.simulate_traffic(...); avg_wait = sum(wait_times) /
\* len(wait_times); then the result text, or the box of except Exception
aggregate(total, wait_times) ==
  IF Len(wait_times) = 0
  THEN [raised |-> "ZeroDivisionError", shown |-> EmptyMsg, reported |-> FALSE,
        total |-> 0, avg_wait |-> FInt(0)]
  ELSE [raised |-> "none", shown |-> "SIMULATION RESULTS", reported |-> TRUE,
        total |-> total, avg_wait |-> AvgWait(wait_times)]

RunAggregate ==
  /\ probe.kind = "call"
  /\ probe' = [kind |-> "displayed", option |-> probe.option,
               vehicles |-> probe.vehicles, sim_time |-> probe.sim_time,
               peak_at_start |-> probe.peak_at_start, weather |-> probe.weather,
               wait_times |-> BatchWaits(probe),
               outcome |-> aggregate(BatchTotal(probe), BatchWaits(probe))]
  /\ UNCHANGED <<solution_var, vehicles_var, time_var, peak_hour_var, btn_packed,
                 result_var, dialog, stack, last_run, prev_run>>

SpecAggregate == InitAggregate /\ [][RunAggregate]_vars

NoEmptySeriesInWindow ==
  /\ \A i \in 1..Len(stack) : stack[i].sim_time > 0
  /\ dialog # EmptyMsg
  /\ last_run.done => Len(last_run.wait_times) > 0

\* C12: the 5-year total cost shown at the end of a run is the
\* implementation cost plus 5 times the yearly maintenance cost of the
\* solution whose efficiency and base wait time the run's loop used, whatever
\* widget events were handled while the run was stepping.
C12_CostOfSimulatedSolution ==
  (last_run.done /\ result_var.text = "SIMULATION RESULTS") =>
    LET simulated == traffic_options[last_run.option]
    IN  result_var.five_year = simulated.cost + 5 * simulated.maintenance_cost

====
